---- MODULE Spec2Model ----
(***************************************************************************)
(* Model of src/parser.py: the business-hours feature extractor            *)
(* (parse_time_range, intersects_day, intersects_night, expand_days,       *)
(* hours_parser) and the beer-glass price extractor                        *)
(* (parse_middle_beer_cup).                                                *)
(*                                                                         *)
(* Representation.                                                         *)
(*  - A string is a sequence of lexical tokens.  A token is a record       *)
(*    [k, s, h, m]: k = "w" a word (s its letters), k = "p" a punctuation  *)
(*    or blank character (s the character), k = "t" a clock text "H:MM" or *)
(*    "HH:MM" (h its hour digits, m its two minute digits), k = "n" a      *)
(*    maximal digit run (h its value).  The regular expressions of the     *)
(*    source are evaluated on these token sequences.                       *)
(*  - Cyrillic words are written in Latin transliteration: "ezhednevno"    *)
(*    (every day), "kruglosutochno" (round the clock), "pn" "vt" "sr"      *)
(*    "cht" "pt" "sb" "vs" (Monday..Sunday), "prazdniki" (a lowercase      *)
(*    Cyrillic word that is no day), "cena bokala piva" (the key phrase    *)
(*    of the price extractor).  A word written with a capital first letter *)
(*    stands for the same word with an upper-case first letter.            *)
(*  - Every quantity the source holds in hours as a float is held here in  *)
(*    minutes as an integer (60 x the source value), so h + m/60 becomes   *)
(*    60*h + m, "+ 24" becomes "+ 24*60", and sums and products are exact. *)
(*  - The null input (pd.isna) is the value Null.                          *)
(***************************************************************************)
EXTENDS Integers, Sequences, FiniteSets, TLC

VARIABLES pc, arg, text, segments, idx, is_24_7, is_night, is_day,
          on_week, on_weekend, hours_on_week, hours_on_weekend, ret

vars == <<pc, arg, text, segments, idx, is_24_7, is_night, is_day,
          on_week, on_weekend, hours_on_week, hours_on_weekend, ret>>

locals == <<text, segments, idx, is_24_7, is_night, is_day,
            on_week, on_weekend, hours_on_week, hours_on_weekend>>

-----------------------------------------------------------------------------
(* Tokens *)

Word(s) == [k |-> "w", s |-> s, h |-> 0, m |-> 0]
Punct(s) == [k |-> "p", s |-> s, h |-> 0, m |-> 0]
Clock(h, m) == [k |-> "t", s |-> "", h |-> h, m |-> m]
Number(n) == [k |-> "n", s |-> "", h |-> n, m |-> 0]

Hyphen == Punct("-")
EnDash == Punct("en-dash")
Comma == Punct(",")
Space == Punct(" ")
Semicolon == Punct(";")
Colon == Punct(":")

Null == <<Punct("null")>>
None == <<>>

MinutesPerHour == 60

Max(a, b) == IF a >= b THEN a ELSE b
Min(a, b) == IF a <= b THEN a ELSE b

-----------------------------------------------------------------------------
(* Constants of the source *)

WEEK_DAYS == {"pn", "vt", "sr", "cht", "pt"}
WEEKEND_DAYS == {"sb", "vs"}
ALL_DAYS == WEEK_DAYS \cup WEEKEND_DAYS

DAY_START == 6
DAY_END == 22

-----------------------------------------------------------------------------
(* str.lower and str.replace *)

LowerWord(s) ==
    CASE s = "Ezhednevno" -> "ezhednevno"
      [] s = "Kruglosutochno" -> "kruglosutochno"
      [] s = "Pn" -> "pn"
      [] s = "Vs" -> "vs"
      [] s = "Cena bokala piva" -> "cena bokala piva"
      [] OTHER -> s

Lower(str) ==
    [i \in 1..Len(str) |->
        IF str[i].k = "w" THEN Word(LowerWord(str[i].s)) ELSE str[i]]

ReplaceDash(str) ==
    [i \in 1..Len(str) |-> IF str[i] = EnDash THEN Hyphen ELSE str[i]]

-----------------------------------------------------------------------------
(* parse_time_range *)

\* the pattern \d{1,2}:\d{2}-\d{1,2}:\d{2} matches at position i of str
TimeRangeAt(str, i) ==
    /\ i >= 1
    /\ i + 2 <= Len(str)
    /\ str[i].k = "t"
    /\ str[i + 1] = Hyphen
    /\ str[i + 2].k = "t"

parse_time_range(time_range) ==
    LET tr == ReplaceDash(time_range)
    IN  IF ~TimeRangeAt(tr, 1)
        THEN None
        ELSE LET start == tr[1].h * MinutesPerHour + tr[1].m
                 end == tr[3].h * MinutesPerHour + tr[3].m
             IN  IF end <= start
                 THEN <<start, end + 24 * MinutesPerHour>>
                 ELSE <<start, end>>

-----------------------------------------------------------------------------
(* intersects_day, intersects_night *)

intersects_day(start, end) ==
    Max(start, DAY_START * MinutesPerHour) < Min(end, DAY_END * MinutesPerHour)

night_ranges == <<(<<22, 24>>), (<<0, 6>>)>>

intersects_night(start, end) ==
    \E r \in 1..Len(night_ranges) :
        Max(start, night_ranges[r][1] * MinutesPerHour)
            < Min(end, night_ranges[r][2] * MinutesPerHour)

-----------------------------------------------------------------------------
(* expand_days *)

order == <<"pn", "vt", "sr", "cht", "pt", "sb", "vs">>

\* list.index: position of d in order, counted from 0
OrderIndex(d) == (CHOOSE j \in 1..Len(order) : order[j] = d) - 1

IsDayWord(t) == t.k = "w" /\ t.s \in ALL_DAYS

\* the pattern (day)-(day) matches at the start of str
DayRangeAtStart(str) ==
    /\ Len(str) >= 3
    /\ IsDayWord(str[1])
    /\ str[2] = Hyphen
    /\ IsDayWord(str[3])

\* re.split(r",\s*", str): the pieces between the separators, a separator
\* being a comma with the blanks that follow it
\* \s*: the position after the blanks that start at position j of str
RECURSIVE SkipSpaces(_, _)
SkipSpaces(str, j) ==
    IF j <= Len(str) /\ str[j] = Space THEN SkipSpaces(str, j + 1) ELSE j

RECURSIVE SplitComma(_, _, _)
SplitComma(str, i, cur) ==
    IF i > Len(str) THEN <<cur>>
    ELSE IF str[i] = Comma
         THEN <<cur>> \o SplitComma(str, SkipSpaces(str, i + 1), <<>>)
         ELSE SplitComma(str, i + 1, Append(cur, str[i]))

\* expand_days with the slice order[i1:i2], which leaves the last day out
expand_days_exclusive(days_part) ==
    LET dp == Lower(days_part)
    IN  IF DayRangeAtStart(dp)
        THEN {order[j + 1] : j \in OrderIndex(dp[1].s)..(OrderIndex(dp[3].s) - 1)}
        ELSE LET pieces == SplitComma(dp, 1, <<>>)
             IN  {pieces[p][1].s : p \in {q \in 1..Len(pieces) :
                                            /\ Len(pieces[q]) = 1
                                            /\ IsDayWord(pieces[q][1])}}

expand_days(days_part) ==
    LET dp == Lower(days_part)
    IN  IF DayRangeAtStart(dp)
        THEN LET i1 == OrderIndex(dp[1].s)
                 i2 == OrderIndex(dp[3].s)
             \* order[i1:i2+1]
             IN  {order[j + 1] : j \in i1..i2}
        ELSE LET pieces == SplitComma(dp, 1, <<>>)
             IN  {pieces[p][1].s : p \in {q \in 1..Len(pieces) :
                                            /\ Len(pieces[q]) = 1
                                            /\ IsDayWord(pieces[q][1])}}

-----------------------------------------------------------------------------
(* String helpers used by hours_parser *)

\* word in str
Contains(str, word) == \E i \in 1..Len(str) : str[i] = Word(word)

\* sub in str, for a sequence of tokens
ContainsSeq(str, sub) ==
    \E i \in 1..(Len(str) - Len(sub) + 1) :
        SubSeq(str, i, i + Len(sub) - 1) = sub

\* str.startswith(word)
StartsWith(str, word) == Len(str) >= 1 /\ str[1] = Word(word)

\* re.search of the time-range pattern: the leftmost position, 0 if none
SearchTimeRange(str) ==
    IF \E i \in 1..Len(str) : TimeRangeAt(str, i)
    THEN CHOOSE i \in 1..Len(str) :
            /\ TimeRangeAt(str, i)
            /\ \A j \in 1..(i - 1) : ~TimeRangeAt(str, j)
    ELSE 0

\* str.split(";")
RECURSIVE SplitSemicolon(_, _, _)
SplitSemicolon(str, i, cur) ==
    IF i > Len(str) THEN <<cur>>
    ELSE IF str[i] = Semicolon
         THEN <<cur>> \o SplitSemicolon(str, i + 1, <<>>)
         ELSE SplitSemicolon(str, i + 1, Append(cur, str[i]))

\* str.strip()
RECURSIVE Strip(_)
Strip(str) ==
    IF Len(str) >= 1 /\ str[1] = Space THEN Strip(Tail(str))
    ELSE IF Len(str) >= 1 /\ str[Len(str)] = Space
         THEN Strip(SubSeq(str, 1, Len(str) - 1))
         ELSE str

\* a character of the class [а-я,\-]
DaysChar(t) == (t.k = "w" /\ LowerWord(t.s) = t.s) \/ t = Comma \/ t = Hyphen

\* the length of the longest prefix of str from position i made of DaysChar
RECURSIVE DaysRun(_, _)
DaysRun(str, i) ==
    IF i <= Len(str) /\ DaysChar(str[i]) THEN 1 + DaysRun(str, i + 1) ELSE 0

\* re.match(r"([а-я,\-]+)\s+(\d{1,2}:\d{2}-\d{1,2}:\d{2})", segment):
\* None, or <<days_part, time_part>>
SegmentMatch(segment) ==
    LET n == DaysRun(segment, 1)
        t == SkipSpaces(segment, n + 1)
    IN  IF n >= 1 /\ t > n + 1 /\ TimeRangeAt(segment, t)
        THEN <<SubSeq(segment, 1, n), SubSeq(segment, t, t + 2)>>
        ELSE None

-----------------------------------------------------------------------------
(* hours_parser *)

Record(a, b, c, d, e, f, g) ==
    [is_24_7 |-> a, is_night |-> b, is_day |-> c, on_week |-> d,
     on_weekend |-> e, hours_on_week |-> f, hours_on_weekend |-> g]

\* the record returned for a null input
NullRecord == Record(FALSE, FALSE, FALSE, FALSE, FALSE, 0, 0)

\* the saturated record with seven weekdays counted instead of five
SaturatedRecordSevenDays ==
    Record(TRUE, TRUE, TRUE, TRUE, TRUE,
           24 * 7 * MinutesPerHour, 24 * 2 * MinutesPerHour)

\* the record returned when is_24_7 is set
SaturatedRecord ==
    Record(TRUE, TRUE, TRUE, TRUE, TRUE,
           24 * 5 * MinutesPerHour, 24 * 2 * MinutesPerHour)

\* text = str(hours_str).lower().replace("–", "-")
Normalize(hours_str) == ReplaceDash(Lower(hours_str))

\* the keyword rule
KeywordRule(txt) ==
    \/ (Contains(txt, "kruglosutochno") /\ Contains(txt, "ezhednevno"))
    \/ (Contains(txt, "kruglosutochno")
            /\ ContainsSeq(txt, <<Word("pn"), Hyphen, Word("vs")>>))

\* the first time range of txt parsed, None if txt has none
FirstRange(txt) ==
    LET i == SearchTimeRange(txt)
    IN  IF i = 0 THEN None ELSE parse_time_range(SubSeq(txt, i, i + 2))

\* start == 0 and (end - start) >= 23.99, the hours scaled by 60 * 100
NearFullDay(start, end) ==
    start = 0 /\ (end - start) * 100 >= 2399 * MinutesPerHour

\* the near-24h rule
NearFullDayRule(txt) ==
    /\ StartsWith(txt, "ezhednevno")
    /\ FirstRange(txt) # None
    /\ NearFullDay(FirstRange(txt)[1], FirstRange(txt)[2])

\* the value of is_24_7 after both rules
Is24_7(txt) == KeywordRule(txt) \/ NearFullDayRule(txt)

\* the every-day record with the weekday and weekend factors exchanged
DailyRecordSwapped(start, end) ==
    Record(FALSE, intersects_night(start, end), intersects_day(start, end),
           TRUE, TRUE, (end - start) * 2, (end - start) * 5)

\* the record returned by the every-day branch
DailyRecord(start, end) ==
    Record(FALSE, intersects_night(start, end), intersects_day(start, end),
           TRUE, TRUE, (end - start) * 5, (end - start) * 2)

\* the loop body with "=" in place of "+=": the hours are set, not added
AddDayAssign(acc, d, hours) ==
    IF d \in WEEK_DAYS
    THEN <<TRUE, hours, acc[3], acc[4]>>
    ELSE IF d \in WEEKEND_DAYS
         THEN <<acc[1], acc[2], TRUE, hours>>
         ELSE acc

\* one pass of the body of "for d in days", on <<on_week, hours_on_week,
\* on_weekend, hours_on_weekend>>
AddDay(acc, d, hours) ==
    IF d \in WEEK_DAYS
    THEN <<TRUE, acc[2] + hours, acc[3], acc[4]>>
    ELSE IF d \in WEEKEND_DAYS
         THEN <<acc[1], acc[2], TRUE, acc[4] + hours>>
         ELSE acc

\* the loop "for d in days"
RECURSIVE AddDays(_, _, _)
AddDays(acc, days, hours) ==
    IF days = {} THEN acc
    ELSE LET d == CHOOSE x \in days : TRUE
         IN  AddDays(AddDay(acc, d, hours), days \ {d}, hours)

\* the segment reaches the end of the loop body: neither "continue" is taken
SegmentParsed(segment) ==
    /\ SegmentMatch(segment) # None
    /\ parse_time_range(SegmentMatch(segment)[2]) # None

HoursNull ==
    /\ pc = "call"
    /\ arg = Null
    /\ ret' = NullRecord
    /\ pc' = "done"
    /\ UNCHANGED <<arg, locals>>

Hours24_7 ==
    /\ pc = "call"
    /\ arg # Null
    /\ Is24_7(Normalize(arg))
    /\ text' = Normalize(arg)
    /\ is_24_7' = TRUE
    /\ ret' = SaturatedRecord
    /\ pc' = "done"
    /\ UNCHANGED <<arg, segments, idx, is_night, is_day, on_week, on_weekend,
                   hours_on_week, hours_on_weekend>>

HoursDaily ==
    /\ pc = "call"
    /\ arg # Null
    /\ ~Is24_7(Normalize(arg))
    /\ StartsWith(Normalize(arg), "ezhednevno")
    /\ FirstRange(Normalize(arg)) # None
    /\ text' = Normalize(arg)
    /\ LET parsed == FirstRange(Normalize(arg))
       IN  /\ is_day' = intersects_day(parsed[1], parsed[2])
           /\ is_night' = intersects_night(parsed[1], parsed[2])
           /\ ret' = DailyRecord(parsed[1], parsed[2])
    /\ pc' = "done"
    /\ UNCHANGED <<arg, segments, idx, is_24_7, on_week, on_weekend,
                   hours_on_week, hours_on_weekend>>

HoursSplit ==
    /\ pc = "call"
    /\ arg # Null
    /\ ~Is24_7(Normalize(arg))
    /\ ~(StartsWith(Normalize(arg), "ezhednevno")
            /\ FirstRange(Normalize(arg)) # None)
    /\ text' = Normalize(arg)
    /\ segments' = SplitSemicolon(Normalize(arg), 1, <<>>)
    /\ idx' = 1
    /\ pc' = "loop"
    /\ UNCHANGED <<arg, is_24_7, is_night, is_day, on_week, on_weekend,
                   hours_on_week, hours_on_weekend, ret>>

\* an iteration that ends at "continue"
SegmentSkip ==
    /\ pc = "loop"
    /\ idx <= Len(segments)
    /\ ~SegmentParsed(Strip(segments[idx]))
    /\ idx' = idx + 1
    /\ UNCHANGED <<pc, arg, text, segments, is_24_7, is_night, is_day,
                   on_week, on_weekend, hours_on_week, hours_on_weekend, ret>>

\* an iteration that runs to the end of the loop body
SegmentAccept ==
    /\ pc = "loop"
    /\ idx <= Len(segments)
    /\ SegmentParsed(Strip(segments[idx]))
    /\ LET match == SegmentMatch(Strip(segments[idx]))
       IN  /\ TRUE
           /\ LET days == expand_days(match[1])
                  parsed == parse_time_range(match[2])
                  hours == parsed[2] - parsed[1]
                  acc == AddDays(<<on_week, hours_on_week,
                                   on_weekend, hours_on_weekend>>, days, hours)
              IN  /\ is_day' = (is_day \/ intersects_day(parsed[1], parsed[2]))
                  /\ is_night' =
                        (is_night \/ intersects_night(parsed[1], parsed[2]))
                  /\ on_week' = acc[1]
                  /\ hours_on_week' = acc[2]
                  /\ on_weekend' = acc[3]
                  /\ hours_on_weekend' = acc[4]
    /\ idx' = idx + 1
    /\ UNCHANGED <<pc, arg, text, segments, is_24_7, ret>>

HoursReturn ==
    /\ pc = "loop"
    /\ idx > Len(segments)
    /\ ret' = Record(FALSE, is_night, is_day, on_week, on_weekend,
                     hours_on_week, hours_on_weekend)
    /\ pc' = "done"
    /\ UNCHANGED <<arg, locals>>

-----------------------------------------------------------------------------
(* Inputs of hours_parser *)

MaxSegments == 2

TimeRange(h1, m1, h2, m2) == <<Clock(h1, m1), Hyphen, Clock(h2, m2)>>

DaysParts ==
    { <<Word("pn"), Hyphen, Word("pt")>>,
      <<Word("sb"), Comma, Word("vs")>>,
      <<Word("pn"), Hyphen, Word("vs")>>,
      <<Word("vs")>>,
      <<Word("sb"), Hyphen, Word("pn")>>,
      <<Word("prazdniki")>> }

SegmentTimes ==
    { TimeRange(10, 0, 22, 0), TimeRange(22, 0, 6, 0), TimeRange(30, 0, 5, 0) }

DailyTimes ==
    SegmentTimes \cup
    { TimeRange(0, 0, 23, 59), TimeRange(0, 0, 24, 0), TimeRange(0, 0, 0, 0),
      TimeRange(23, 0, 7, 0), TimeRange(9, 0, 18, 30) }

DaySegments == { d \o <<Space>> \o t : d \in DaysParts, t \in SegmentTimes }

OtherSegments ==
    { <<Word("Pn"), Hyphen, Word("pt"), Space, Clock(9, 0), EnDash, Clock(18, 30)>>,
      <<Word("pn"), Hyphen, Word("pt")>> \o TimeRange(10, 0, 22, 0),
      <<Word("kruglosutochno")>>,
      <<Word("pn"), Hyphen, Word("vs"), Space, Word("kruglosutochno")>>,
      <<Word("ezhednevno")>>,
      TimeRange(0, 0, 23, 59),
      <<>> }

FirstSegments ==
    DaySegments \cup OtherSegments \cup
    { <<Word("ezhednevno"), Space>> \o t : t \in DailyTimes } \cup
    { <<Word("Ezhednevno"), Space, Clock(10, 0), EnDash, Clock(22, 0)>>,
      <<Word("ezhednevno"), Comma, Space, Word("kruglosutochno")>>,
      <<Word("ezhednevno"), Space, Word("prazdniki"), Space>>
            \o TimeRange(0, 0, 24, 0) }

LaterSegments == DaySegments \cup OtherSegments

RECURSIVE Texts(_)
Texts(n) ==
    IF n = 1 THEN FirstSegments
    ELSE { t \o <<Semicolon, Space>> \o s : t \in Texts(n - 1), s \in LaterSegments }

HoursInputs == {Null} \cup UNION { Texts(n) : n \in 1..MaxSegments }

\* the locals of hours_parser before its first statement
LocalsInit ==
    /\ text = <<>>
    /\ segments = <<>>
    /\ idx = 0
    /\ is_24_7 = FALSE
    /\ is_night = FALSE
    /\ is_day = FALSE
    /\ on_week = FALSE
    /\ on_weekend = FALSE
    /\ hours_on_week = 0
    /\ hours_on_weekend = 0

Init ==
    /\ pc = "call"
    /\ arg \in HoursInputs
    /\ LocalsInit
    /\ ret = None

Next ==
    \/ HoursNull
    \/ Hours24_7
    \/ HoursDaily
    \/ HoursSplit
    \/ SegmentSkip
    \/ SegmentAccept
    \/ HoursReturn

Spec == Init /\ [][Next]_vars

-----------------------------------------------------------------------------
(* parse_time_range followed by intersects_day and intersects_night, as    *)
(* hours_parser applies them to one time range                             *)

HourValues == (0..25) \cup {30, 48, 99}
MinuteValues == {0, 1, 30, 59, 60, 99}

TimeInputs ==
    { TimeRange(h1, m1, h2, m2) :
        h1 \in HourValues, m1 \in MinuteValues,
        h2 \in HourValues, m2 \in MinuteValues } \cup
    { <<Clock(h1, 0), EnDash, Clock(h2, 30), Space, Word("pn")>> :
        h1 \in HourValues, h2 \in HourValues } \cup
    { <<Clock(10, 0), Space, Hyphen, Space, Clock(22, 0)>>,
      <<Space>> \o TimeRange(10, 0, 22, 0),
      <<Clock(10, 0), Hyphen>>,
      <<Word("pn")>>,
      <<>> }

InitTime ==
    /\ pc = "call"
    /\ arg \in TimeInputs
    /\ LocalsInit
    /\ ret = None

ParseTimeRange ==
    /\ pc = "call"
    /\ ret' = parse_time_range(arg)
    /\ pc' = "parsed"
    /\ UNCHANGED <<arg, locals>>

IntersectsDay ==
    /\ pc = "parsed"
    /\ ret # None
    /\ is_day' = intersects_day(ret[1], ret[2])
    /\ pc' = "day"
    /\ UNCHANGED <<arg, text, segments, idx, is_24_7, is_night, on_week,
                   on_weekend, hours_on_week, hours_on_weekend, ret>>

IntersectsNight ==
    /\ pc = "day"
    /\ is_night' = intersects_night(ret[1], ret[2])
    /\ pc' = "done"
    /\ UNCHANGED <<arg, text, segments, idx, is_24_7, is_day, on_week,
                   on_weekend, hours_on_week, hours_on_weekend, ret>>

NextTime ==
    \/ ParseTimeRange
    \/ IntersectsDay
    \/ IntersectsNight

SpecTime == InitTime /\ [][NextTime]_vars

-----------------------------------------------------------------------------
(* expand_days called on its own *)

MaxEnum == 3

EnumWords == ALL_DAYS \cup {"prazdniki", "Vs"}

\* the lists of n words joined by sep
RECURSIVE Enumerations(_, _)
Enumerations(n, sep) ==
    IF n = 1 THEN { <<Word(w)>> : w \in EnumWords }
    ELSE { e \o sep \o <<Word(w)>> : e \in Enumerations(n - 1, sep), w \in EnumWords }

DaysInputs ==
    { <<Word(a), Hyphen, Word(b)>> : a \in ALL_DAYS \cup {"Pn"}, b \in ALL_DAYS } \cup
    UNION { Enumerations(n, <<Comma>>) \cup Enumerations(n, <<Comma, Space>>) :
            n \in 1..MaxEnum } \cup
    { <<>>, <<Word("sb"), Space, Comma, Word("vs")>> }

InitDays ==
    /\ pc = "call"
    /\ arg \in DaysInputs
    /\ LocalsInit
    /\ ret = None

ExpandDays ==
    /\ pc = "call"
    /\ ret' = expand_days(arg)
    /\ pc' = "done"
    /\ UNCHANGED <<arg, locals>>

NextDays == ExpandDays

SpecDays == InitDays /\ [][NextDays]_vars

-----------------------------------------------------------------------------
(* parse_middle_beer_cup *)

\* np.nan
NaN == <<>>

\* re.findall(r'\d+', str) mapped to int: the digit runs of str in order
RECURSIVE FindNumbers(_)
FindNumbers(str) ==
    IF str = <<>> THEN <<>>
    ELSE (CASE Head(str).k = "n" -> <<Head(str).h>>
            [] Head(str).k = "t" -> <<Head(str).h, Head(str).m>>
            [] OTHER -> <<>>) \o FindNumbers(Tail(str))

\* a float result as the fraction <<numerator, denominator>>;
\* np.median of two numbers is their sum over 2
parse_middle_beer_cup(value) ==
    IF value = Null THEN NaN
    ELSE LET v == Strip(Lower(value))
             numbers == FindNumbers(v)
         IN  IF ~Contains(v, "cena bokala piva") THEN NaN
             ELSE IF Len(numbers) = 0 THEN NaN
             ELSE IF Len(numbers) = 1 THEN <<numbers[1], 1>>
             ELSE <<numbers[1] + numbers[2], 2>>

MaxNumbers == 3

PriceValues == {0, 100, 151, 200}

\* the texts of n numbers joined by hyphens, as in "100-200"
RECURSIVE PriceLists(_)
PriceLists(n) ==
    IF n = 0 THEN { <<>> }
    ELSE IF n = 1 THEN { <<Number(x)>> : x \in PriceValues }
    ELSE { l \o <<Hyphen, Number(x)>> : l \in PriceLists(n - 1), x \in PriceValues }

BeerPrefixes ==
    { <<Word("cena bokala piva"), Colon, Space>>,
      <<Space, Word("Cena bokala piva"), Colon, Space>>,
      <<Word("cena bokala piva"), Space>>,
      <<Word("srednij schet"), Colon, Space>>,
      <<>> }

BeerInputs ==
    {Null} \cup
    { b \o l \o e : b \in BeerPrefixes,
                    l \in UNION { PriceLists(n) : n \in 0..MaxNumbers },
                    e \in { <<>>, <<Space>> } }

InitBeer ==
    /\ pc = "call"
    /\ arg \in BeerInputs
    /\ LocalsInit
    /\ ret = None

ParseMiddleBeerCup ==
    /\ pc = "call"
    /\ ret' = parse_middle_beer_cup(arg)
    /\ pc' = "done"
    /\ UNCHANGED <<arg, locals>>

NextBeer == ParseMiddleBeerCup

SpecBeer == InitBeer /\ [][NextBeer]_vars

-----------------------------------------------------------------------------
(* Properties of hours_parser, checked under Spec *)

\* the first HH:MM-HH:MM token of the normalized input, <<>> if there is none
FirstTimeToken(hours_str) ==
    LET txt == Normalize(hours_str)
        i == SearchTimeRange(txt)
    IN  IF i = 0 THEN <<>> ELSE SubSeq(txt, i, i + 2)

StartsEveryDay(hours_str) ==
    hours_str # Null /\ StartsWith(Normalize(hours_str), "ezhednevno")

\* the hours 120 and 48 of the saturated record, in minutes
FullWeekMinutes == 120 * MinutesPerHour
FullWeekendMinutes == 48 * MinutesPerHour

IsSaturated(r) ==
    /\ r.is_24_7 /\ r.is_night /\ r.is_day /\ r.on_week /\ r.on_weekend
    /\ r.hours_on_week = FullWeekMinutes
    /\ r.hours_on_weekend = FullWeekendMinutes

\* C1: a text that starts with the every-day keyword, has no round-the-clock
\* keyword and whose first time token is 00:00-23:59, 00:00-24:00 or
\* 00:00-00:00 is returned as full-time, with the saturated record.
C1_NearFullDayIsFullTime ==
    ( /\ pc = "done"
      /\ StartsEveryDay(arg)
      /\ ~Contains(Normalize(arg), "kruglosutochno")
      /\ FirstTimeToken(arg) \in { TimeRange(0, 0, 23, 59),
                                   TimeRange(0, 0, 24, 0),
                                   TimeRange(0, 0, 0, 0) } )
    => IsSaturated(ret)

\* C2: the returned record never holds a negative hour total.
C2_HoursNonNegative ==
    pc = "done" => (ret.hours_on_week >= 0 /\ ret.hours_on_weekend >= 0)

\* C4: a returned record with is_24_7 set is the saturated record, and a
\* return on any path where the flag is_24_7 was not set has is_24_7 false.
C4_SaturatedWhen24_7 ==
    pc = "done" =>
        /\ ret.is_24_7 => IsSaturated(ret)
        /\ ~is_24_7 => ~ret.is_24_7

C4_Witness ==
    /\ pc = "done"
    /\ ret.is_24_7
    /\ ~Contains(text, "kruglosutochno")

\* C6: a text that starts with the every-day keyword, is not full-time by
\* either rule and holds a time token returns is_24_7 false, on_week and
\* on_weekend true, 5 and 2 times the length of the first time token as the
\* hour totals, and the day and night flags of that token, whatever follows it.
C6_EveryDayRange ==
    ( /\ pc = "done"
      /\ StartsEveryDay(arg)
      /\ ~KeywordRule(Normalize(arg))
      /\ ~NearFullDayRule(Normalize(arg))
      /\ FirstTimeToken(arg) # <<>> )
    => LET parsed == parse_time_range(FirstTimeToken(arg))
       IN  /\ ret.is_24_7 = FALSE
           /\ ret.on_week = TRUE
           /\ ret.on_weekend = TRUE
           /\ ret.hours_on_week = 5 * (parsed[2] - parsed[1])
           /\ ret.hours_on_weekend = 2 * (parsed[2] - parsed[1])
           /\ ret.is_day = intersects_day(parsed[1], parsed[2])
           /\ ret.is_night = intersects_night(parsed[1], parsed[2])

C6_Witness ==
    /\ pc = "done"
    /\ StartsEveryDay(arg)
    /\ ~ret.is_24_7
    /\ ret.on_week
    /\ ret.hours_on_week > 0
    /\ Len(SplitSemicolon(Normalize(arg), 1, <<>>)) >= 2
    /\ SegmentParsed(Strip(SplitSemicolon(Normalize(arg), 1, <<>>)[2]))

\* the day set and the length of an accepted segment
SegmentDays(segment) == expand_days(SegmentMatch(Strip(segment))[1])

SegmentHours(segment) ==
    LET parsed == parse_time_range(SegmentMatch(Strip(segment))[2])
    IN  parsed[2] - parsed[1]

\* the sum, over the accepted segments among the first n, of the segment's
\* length times the number of its days that lie in daySet
RECURSIVE TotalHours(_, _, _)
TotalHours(segs, n, daySet) ==
    IF n = 0 THEN 0
    ELSE TotalHours(segs, n - 1, daySet)
            + (IF SegmentParsed(Strip(segs[n]))
               THEN SegmentHours(segs[n])
                        * Cardinality(SegmentDays(segs[n]) \cap daySet)
               ELSE 0)

\* some accepted segment among the first n has a day in daySet
AnyDay(segs, n, daySet) ==
    \E j \in 1..n :
        /\ SegmentParsed(Strip(segs[j]))
        /\ SegmentDays(segs[j]) \cap daySet # {}

\* C7: on the segmented path, after any number of segments, the hour totals
\* are the sums over the accepted segments of length times number of weekdays
\* (weekend days), and on_week (on_weekend) says whether some accepted segment
\* has a weekday (weekend day); the returned record carries these values.
C7_SegmentTotals ==
    /\ pc = "loop" =>
        /\ hours_on_week = TotalHours(segments, idx - 1, WEEK_DAYS)
        /\ hours_on_weekend = TotalHours(segments, idx - 1, WEEKEND_DAYS)
        /\ on_week = AnyDay(segments, idx - 1, WEEK_DAYS)
        /\ on_weekend = AnyDay(segments, idx - 1, WEEKEND_DAYS)
    /\ (pc = "done" /\ segments # <<>>) =>
        /\ ret.hours_on_week = TotalHours(segments, Len(segments), WEEK_DAYS)
        /\ ret.hours_on_weekend = TotalHours(segments, Len(segments), WEEKEND_DAYS)
        /\ ret.on_week = AnyDay(segments, Len(segments), WEEK_DAYS)
        /\ ret.on_weekend = AnyDay(segments, Len(segments), WEEKEND_DAYS)

C7_Witness ==
    /\ pc = "done"
    /\ Len(segments) >= 2
    /\ SegmentParsed(Strip(segments[1]))
    /\ SegmentParsed(Strip(segments[2]))
    /\ SegmentDays(segments[1]) \cap SegmentDays(segments[2]) \cap WEEK_DAYS # {}
    /\ SegmentDays(segments[2]) \cap WEEKEND_DAYS # {}
    /\ ret.hours_on_week > SegmentHours(segments[1]) * 5
    /\ ret.hours_on_weekend > 0

\* a segment the loop is said to skip: no "<days> <time-range>" shape, an
\* empty expanded day set, or an unparsed time range
SaidSkipped(segment) ==
    \/ SegmentMatch(segment) = None
    \/ expand_days(SegmentMatch(segment)[1]) = {}
    \/ parse_time_range(SegmentMatch(segment)[2]) = None

\* C9: a loop iteration on a skipped segment leaves is_day, is_night, on_week,
\* on_weekend, hours_on_week and hours_on_weekend as they were.
C9_SkippedSegmentChangesNothing ==
    [][ ( /\ pc = "loop"
          /\ idx <= Len(segments)
          /\ SaidSkipped(Strip(segments[idx])) )
        => UNCHANGED <<is_day, is_night, on_week, on_weekend,
                       hours_on_week, hours_on_weekend>> ]_vars

-----------------------------------------------------------------------------
(* Properties of parse_time_range and the interval predicates, checked     *)
(* under SpecTime                                                          *)

\* C3: whenever parse_time_range returns a pair, its end is greater than
\* its start.
C3_RolloverInvariant ==
    (pc # "call" /\ ret # None) => ret[2] > ret[1]

ValidClock(t) == t.k = "t" /\ t.h \in 0..23 /\ t.m \in 0..59

\* the interval from start to end holds a moment whose time of day, taken
\* modulo 24 hours, lies in [lo, hi) hours
HasMomentIn(start, end, lo, hi) ==
    \E t \in start..(end - 1) :
        /\ lo * MinutesPerHour <= t % (24 * MinutesPerHour)
        /\ t % (24 * MinutesPerHour) < hi * MinutesPerHour

\* C8: for a range of two clock times with hours 0-23 and minutes 0-59,
\* intersects_day says whether the interval holds a moment of the day window
\* [6,22), and intersects_night whether it holds a moment of [22,24) or [0,6).
C8_DayNightCapture ==
    ( /\ pc = "done"
      /\ ValidClock(arg[1])
      /\ ValidClock(arg[3]) )
    => /\ is_day = HasMomentIn(ret[1], ret[2], 6, 22)
       /\ is_night = (HasMomentIn(ret[1], ret[2], 22, 24)
                        \/ HasMomentIn(ret[1], ret[2], 0, 6))

-----------------------------------------------------------------------------
(* Properties of expand_days, checked under SpecDays                       *)

\* the position of a day in the week, Monday first
DayNumber(d) ==
    CASE d = "pn" -> 1 [] d = "vt" -> 2 [] d = "sr" -> 3 [] d = "cht" -> 4
      [] d = "pt" -> 5 [] d = "sb" -> 6 [] d = "vs" -> 7

\* str is a range token a-b whose two sides are day tokens
IsRangeToken(str) ==
    /\ Len(str) = 3
    /\ str[1].k = "w" /\ LowerWord(str[1].s) \in ALL_DAYS
    /\ str[2] = Hyphen
    /\ str[3].k = "w" /\ LowerWord(str[3].s) \in ALL_DAYS

\* the enumerations among the inputs, and the tokens an enumeration lists
EnumInputs ==
    UNION { Enumerations(n, <<Comma>>) \cup Enumerations(n, <<Comma, Space>>) :
            n \in 1..MaxEnum }

ListedTokens(str) ==
    { LowerWord(str[i].s) : i \in { j \in 1..Len(str) : str[j].k = "w" } }

\* C10: a range a-b of two day tokens expands to the days whose position lies
\* between those of a and b inclusive, which is no day when a comes after b;
\* an enumeration expands to its listed tokens that are days.
C10_ExpandDays ==
    pc = "done" =>
        /\ IsRangeToken(arg) =>
            LET a == DayNumber(LowerWord(arg[1].s))
                b == DayNumber(LowerWord(arg[3].s))
            IN  /\ ret = { d \in ALL_DAYS : a <= DayNumber(d) /\ DayNumber(d) <= b }
                /\ a > b => ret = {}
        /\ arg \in EnumInputs => ret = ListedTokens(arg) \cap ALL_DAYS

C10_Witness ==
    /\ pc = "done"
    /\ IsRangeToken(arg)
    /\ DayNumber(LowerWord(arg[1].s)) > DayNumber(LowerWord(arg[3].s))
    /\ ret = {}

-----------------------------------------------------------------------------
(* Properties of parse_middle_beer_cup, checked under SpecBeer             *)

\* the case-folded trimmed text holds the key phrase with its colon
HasKeyPhraseWithColon(value) ==
    ContainsSeq(Strip(Lower(value)), <<Word("cena bokala piva"), Colon>>)

\* C5: no value for a null input, for a text without the key phrase
\* "cena bokala piva:" (colon included) and for a text without a digit run;
\* otherwise the single number, or the mean of the first two numbers; the
\* value is never negative.
C5_BeerCupPrice ==
    pc = "done" =>
        IF arg = Null
        THEN ret = NaN
        ELSE LET numbers == FindNumbers(arg)
             IN  IF ~HasKeyPhraseWithColon(arg) \/ Len(numbers) = 0
                 THEN ret = NaN
                 ELSE /\ ret # NaN
                      /\ ret[1] >= 0
                      /\ Len(numbers) = 1 => ret[1] = numbers[1] * ret[2]
                      /\ Len(numbers) >= 2 =>
                            2 * ret[1] = (numbers[1] + numbers[2]) * ret[2]

====
